---- MODULE Spec2Model ----
(***************************************************************************)
(* Signal-detection and trade-simulation engine of the PSAR strategy       *)
(* scripts: the batch backtest backtestStrategy (backtest_psar_adx.js),    *)
(* the live signal functions (core/psarAdxStrategy.js, core/psarStrategy.js)*)
(* the look-back PSAR backtest and the Keltner backtest (unnamed/part_002) *)
(* and the EMA-crossover signal function trendStrategy5m (unnamed/part_003).*)
(*                                                                         *)
(* Prices and indicator values are small naturals.  The indicator library  *)
(* (technicalindicators) is outside the repository: a call X.calculate on  *)
(* the first n candles is modelled as the slice, from the indicator's      *)
(* warm-up on, of a per-bar value that depends on bars 0..k only.          *)
(***************************************************************************)
EXTENDS Integers, Sequences, FiniteSets, TLC

\* ---------------------------------------------------------------- bounds
\* Scaled stand-ins of the program's sizes: 250 bars of minimum data, the
\* 199-bar warm-up of EMA(200), the 27-bar warm-up of ADX(14).
MinData == 5
MaxBars == 6
EmaWarmup == 3
AdxWarmup == 3
\* PSAR.calculate yields one value per input bar (the first is low[0]).
PsarWarmup == 0
\* look-back window of the range filter (14 in the source)
RangeLookback == 2
MaxExpiry == 2
MaxMinFlips == 2
\* the live functions: longest candle window, largest minFlips
LiveMaxBars == 5
LiveMaxMinFlips == 3
\* scaled warm-ups of EMA(50), EMA(100) and KeltnerChannels(20)
FastWarmup == 1
SlowWarmup == 2
KcWarmup == 1
\* the 200 bars the look-back backtest asks for, and its largest look-back
LookbackMinData == 4
MaxLookback == 3
\* live drivers: the 210 candles runLoop asks for, and how many timer ticks
\* are counted, how many invocations are followed at a time and how many
\* records the log is followed up to
LoopMinData == 5
MaxTicks == 2
MaxInflight == 2
MaxLog == 2
\* scenario runs of backtestStrategy: their length, the holding period of the
\* overlapping trades, the minFlips of the short excursion, the flat PSAR
ScenarioBars == 9
OverlapExpiry == 3
BlipMinFlips == 3
ScenarioPsar == 3
\* triple oscillator: the 210 bars of minimum data and the 200 bars of
\* history a bar needs to be evaluated
TripleMinData == 5
HistoryMin == 4
\* trendStrategy5m: longest candle array; the bars its loop leaves at the end
TrendBars == 10
TrendTail == 5

CloseVals == 1..4
PsarVals == {2, 3}
\* EMA values below and above every close that crosses; the neutral value
\* rejects no flip of these inputs
EmaVals == {1, 4}
EmaNeutral == 2
AdxVals == {1, 2}
AdxStrong == 2
AdxThresholds == {2}
FastVals == {1, 2}
SlowVals == {1, 2}
TrendVals == {1, 3}
TrendClose == 2
\* closes strictly below and strictly above the scenario PSAR
BelowVals == {1, 2}
AboveVals == {4, 5, 6}
\* the closes of the overlapping-trades runs
OverlapVals == {1, 2, 4, 5}
\* what the oscillators say at a bar: all oversold and turning up, all
\* overbought and turning down, or neither
OscVals == {"up", "down", "none"}
KcVals == {[lower |-> 2, upper |-> 3], [lower |-> 2, upper |-> 2]}

\* confidence of a PSAR+ADX signal: base, cap of the ADX bonus, range bonus
BaseConfidence == 70
MaxBonus == 30
RangeBonus == 5
\* fixed confidence of a plain PSAR signal
PsarConfidence == 80

\* ------------------------------------------------------------ JS values
Undef == -1
Null == -2

\* arr[k] of a JavaScript array: undefined outside 0..length-1
At(arr, k) == IF k >= 0 /\ k < Len(arr) THEN arr[k + 1] ELSE Undef

\* relational operators: any comparison with undefined is false
Lt(a, b) == a # Undef /\ b # Undef /\ a < b
Gt(a, b) == a # Undef /\ b # Undef /\ a > b
Le(a, b) == a # Undef /\ b # Undef /\ a <= b
Ge(a, b) == a # Undef /\ b # Undef /\ a >= b

VARIABLES
    candles,        \* the bar sequence: records [close, high, low]
    psarOf,         \* per bar: the PSAR value of that bar
    emaOf,          \* per bar: the EMA200 value of that bar (Undef in the warm-up)
    adxOf,          \* per bar: the ADX value of that bar (Undef in the warm-up)
    fastOf,         \* per bar: the EMA50 value of that bar
    slowOf,         \* per bar: the EMA100 value of that bar
    kcOf,           \* per bar: the Keltner channel [lower, upper] of that bar
    oscOf,          \* per bar: what the three oscillators agree on at that bar
    expiryBars, adxThreshold, minFlips, rangeMultiplier,
    lookback,       \* the --lookback argument of the look-back backtest
    pc,             \* which program runs, and its position
    i,              \* loop index
    totalTrades, correctTrades, barsSinceFlip,
    iter,           \* the locals of the last loop iteration
    trades,         \* every trade opened so far, in order
    result,         \* the returned { total, correct, accuracy }
    window,         \* live: how many candles the last poll fetched
    signal,         \* live: what the signal function returned for them
    signals,        \* trendStrategy5m: the signals pushed so far
    openTrades,     \* triple oscillator: the open-trade list
    resolved,       \* triple oscillator: the trades counted so far, in order
    inflight,       \* live driver: runLoop invocations awaiting their fetch
    ticks,          \* live driver: timer ticks so far
    log             \* live driver: the entries of the signal log file

inputs == <<candles, psarOf, emaOf, adxOf, fastOf, slowOf, kcOf, oscOf, expiryBars,
            adxThreshold, minFlips, rangeMultiplier, lookback>>
batchVars == <<i, totalTrades, correctTrades, barsSinceFlip, iter, trades, result>>
liveVars == <<window, signal>>
tripleVars == <<openTrades, resolved>>
driverVars == <<inflight, ticks, log>>
vars == <<inputs, pc, batchVars, liveVars, signals, tripleVars, driverVars>>

\* ---------------------------------------------------- indicator library
\* X.calculate over the first n of the bars in `of`: the values of bars
\* warmup..n-1, an array shorter than the input by the warm-up.
Calculate(of, warmup, n) ==
    IF n <= warmup THEN <<>> ELSE [k \in 1..(n - warmup) |-> of[k + warmup]]

\* variant: the volume column read in place of the close
VolumeColumn(cs) == [k \in 1..Len(cs) |-> cs[k].volume]

Closes(cs) == [k \in 1..Len(cs) |-> cs[k].close]
Highs(cs) == [k \in 1..Len(cs) |-> cs[k].high]
Lows(cs) == [k \in 1..Len(cs) |-> cs[k].low]

\* ------------------------------------------------------ flip detection
\* variant: the previous bar compared strictly
UpCondStrict(closePrev, psarPrev, closeCurr, psarCurr) ==
    Lt(closePrev, psarPrev) /\ Gt(closeCurr, psarCurr)

UpCond(closePrev, psarPrev, closeCurr, psarCurr) ==
    Le(closePrev, psarPrev) /\ Gt(closeCurr, psarCurr)

\* variant: the DOWN test left as a copy of the UP test
DownCondCopied(closePrev, psarPrev, closeCurr, psarCurr) ==
    Le(closePrev, psarPrev) /\ Gt(closeCurr, psarCurr)

\* variant: the test of the current bar left out
DownCondPrevOnly(closePrev, psarPrev, closeCurr, psarCurr) ==
    Ge(closePrev, psarPrev)

DownCond(closePrev, psarPrev, closeCurr, psarCurr) ==
    Ge(closePrev, psarPrev) /\ Lt(closeCurr, psarCurr)

\* variant: the two labels exchanged
DetectSwapped(up, down) ==
    LET d1 == IF up THEN "DOWN" ELSE "null"
    IN  IF down THEN (IF d1 = "DOWN" THEN "null" ELSE "UP") ELSE d1

\* the two ifs of the detector: UP first, then DOWN, which cancels an UP
Detect(up, down) ==
    LET d1 == IF up THEN "UP" ELSE "null"
    IN  IF down THEN (IF d1 = "UP" THEN "null" ELSE "DOWN") ELSE d1

\* variant: a next close equal to the flip close accepted
ContinuedOrEqual(direction, closeCurr, closeNext) ==
    IF direction = "UP" THEN Ge(closeNext, closeCurr) ELSE Le(closeNext, closeCurr)

Continued(direction, closeCurr, closeNext) ==
    IF direction = "UP" THEN Gt(closeNext, closeCurr) ELSE Lt(closeNext, closeCurr)

\* variant: an exit at the entry price counted as a win
IsWinOrEqual(direction, entryPrice, exitPrice) ==
    IF direction = "UP" THEN Ge(exitPrice, entryPrice) ELSE Le(exitPrice, entryPrice)

IsWin(direction, entryPrice, exitPrice) ==
    IF direction = "UP" THEN Gt(exitPrice, entryPrice) ELSE Lt(exitPrice, entryPrice)

\* variant: the ratio without the factor 100
AccuracyRatio(correct, total) ==
    IF total > 0 THEN [num |-> correct, den |-> total] ELSE [num |-> 0, den |-> 1]

\* total > 0 ? (correct / total) * 100 : 0, as the fraction num / den
Accuracy(correct, total) ==
    IF total > 0 THEN [num |-> correct * 100, den |-> total] ELSE [num |-> 0, den |-> 1]

\* sum of high-low over bars from..to (0-based, inclusive)
RECURSIVE SumRange(_, _, _, _)
SumRange(highs, lows, from, to) ==
    IF from > to THEN 0
    ELSE (At(highs, from) - At(lows, from)) + SumRange(highs, lows, from + 1, to)

\* currRange < avgRange * rangeMultiplier, avgRange = sumRange / lookback
RangeTooSmall(highs, lows, k, mult) ==
    (At(highs, k) - At(lows, k)) * RangeLookback
        < SumRange(highs, lows, k - RangeLookback + 1, k) * mult

\* ------------------------------------------- backtestStrategy (PSAR+ADX)
\* The inputs of one run: the candles, the three indicator arrays as the
\* library returns them for these candles, and the arguments.
RunOf(cs, ps, es, as, e, thr, K, rm) ==
    [candles |-> cs,
     psarArr |-> Calculate(ps, PsarWarmup, Len(cs)),
     ema200Arr |-> Calculate(es, EmaWarmup, Len(cs)),
     adxArr |-> Calculate(as, AdxWarmup, Len(cs)),
     expiryBars |-> e, adxThreshold |-> thr, minFlips |-> K, rangeMultiplier |-> rm]

\* variant: exactly K bars asked for
TooSoonExact(bsf, K) == bsf # K

\* variant: one flip-free bar more asked for
TooSoonInclusive(bsf, K) == bsf <= K

\* the minFlips check of the batch loop
TooSoon(bsf, K) == bsf < K

NoTrade(k, out, dir, bsf, ema, adx) ==
    [bar |-> k, outcome |-> out, direction |-> dir, barsSinceFlip |-> bsf,
     ema200 |-> ema, adx |-> adx,
     entryPrice |-> Undef, exitPrice |-> Undef, isWin |-> FALSE]

\* one iteration of the loop at index k with barsSinceFlip = bsf
Iterate(r, k, bsf) ==
    LET closes == Closes(r.candles)
        highs == Highs(r.candles)
        lows == Lows(r.candles)
        psarPrev == At(r.psarArr, k - 1)
        psarCurr == At(r.psarArr, k)
    IN
    IF psarPrev = Undef \/ psarCurr = Undef
    THEN NoTrade(k, "nopsar", "null", bsf + 1, Undef, Undef)
    ELSE
    LET closePrev == At(closes, k - 1)
        closeCurr == At(closes, k)
        closeNext == At(closes, k + 1)
        ema200 == IF At(r.ema200Arr, k) # Undef THEN At(r.ema200Arr, k) ELSE Null
        adx == IF At(r.adxArr, k) # Undef THEN At(r.adxArr, k) ELSE Null
        direction == Detect(UpCond(closePrev, psarPrev, closeCurr, psarCurr),
                            DownCond(closePrev, psarPrev, closeCurr, psarCurr))
    IN
    IF direction = "null"
    THEN NoTrade(k, "noflip", direction, bsf + 1, ema200, adx)
    ELSE IF ~Continued(direction, closeCurr, closeNext)
    THEN NoTrade(k, "nocontinuation", direction, bsf + 1, ema200, adx)
    ELSE IF TooSoon(bsf, r.minFlips)
    THEN NoTrade(k, "minflips", direction, 0, ema200, adx)
    ELSE IF r.rangeMultiplier > 0 /\ k >= RangeLookback
            /\ RangeTooSmall(highs, lows, k, r.rangeMultiplier)
    THEN NoTrade(k, "range", direction, 0, ema200, adx)
    ELSE IF ema200 # Null
            /\ ((direction = "UP" /\ closeCurr < ema200)
                \/ (direction = "DOWN" /\ closeCurr > ema200))
    THEN NoTrade(k, "ema", direction, 0, ema200, adx)
    ELSE IF adx # Null /\ adx < r.adxThreshold
    THEN NoTrade(k, "adx", direction, 0, ema200, adx)
    ELSE
    LET entryPrice == At(closes, k + 1)
        exitPrice == At(closes, k + 1 + r.expiryBars)
    IN  [bar |-> k, outcome |-> "trade", direction |-> direction,
         barsSinceFlip |-> 0, ema200 |-> ema200, adx |-> adx,
         entryPrice |-> entryPrice, exitPrice |-> exitPrice,
         isWin |-> IsWin(direction, entryPrice, exitPrice)]

\* barsSinceFlip before the iteration at index k, counted from index 1
RECURSIVE BarsSinceFlipAt(_, _)
BarsSinceFlipAt(r, k) ==
    IF k <= 1 THEN 0 ELSE Iterate(r, k - 1, BarsSinceFlipAt(r, k - 1)).barsSinceFlip

\* what the run r does at index k
IterationAt(r, k) == Iterate(r, k, BarsSinceFlipAt(r, k))

\* the loop condition i < candles.length - (expiryBars + 1)
InLoop(r, k) == k < Len(r.candles) - (r.expiryBars + 1)

Run == RunOf(candles, psarOf, emaOf, adxOf, expiryBars, adxThreshold,
             minFlips, rangeMultiplier)

NoIter == NoTrade(0, "none", "null", 0, Undef, Undef)

\* ------------------------------------------------ live signal functions
\* arr.unshift(v) until the array has n entries
RECURSIVE PadFront(_, _, _)
PadFront(arr, n, v) == IF Len(arr) >= n THEN arr ELSE PadFront(<<v>> \o arr, n, v)

\* the PSAR array of the live functions: left-padded with its own first value
PadPsar(arr, n) ==
    IF Len(arr) < n /\ Len(arr) > 0 THEN PadFront(arr, n, arr[1])
    ELSE IF Len(arr) < n THEN [k \in 1..n |-> Undef]
    ELSE arr

\* The inputs of one call of a live signal function on the candles cs.
LiveRunOf(cs, ps, es, as, thr, K, rm) ==
    [candles |-> cs,
     psarArr |-> PadPsar(Calculate(ps, PsarWarmup, Len(cs)), Len(cs)),
     ema200Arr |-> PadFront(Calculate(es, EmaWarmup, Len(cs)), Len(cs), Undef),
     adxArr |-> PadFront(Calculate(as, AdxWarmup, Len(cs)), Len(cs), Undef),
     adxThreshold |-> thr, minFlips |-> K, rangeMultiplier |-> rm]

Side(close, psar) == IF Gt(close, psar) THEN "above" ELSE "below"

\* the persistence loop: walks back from j, counting bars, and stops after
\* the first bar whose side differs from currentSide
RECURSIVE WalkBack(_, _, _, _)
WalkBack(closes, psarArr, j, currentSide) ==
    IF j < 0 THEN 0
    ELSE IF Side(At(closes, j), At(psarArr, j)) # currentSide THEN 1
    ELSE 1 + WalkBack(closes, psarArr, j - 1, currentSide)

\* variant: the larger of the two
Larger(a, b) == IF a < b THEN b ELSE a

Min(a, b) == IF a < b THEN a ELSE b

Skipped(out, dir, idx, bsf, ema, adx) ==
    [signal |-> "NONE", confidence |-> 0, skipped |-> TRUE,
     outcome |-> out, direction |-> dir, crossIdx |-> idx,
     barsSinceFlip |-> bsf, ema200 |-> ema, adxVal |-> adx]

PsarAdxSignal(r) ==
    LET n == Len(r.candles)
        closes == Closes(r.candles)
        highs == Highs(r.candles)
        lows == Lows(r.candles)
        prevIdx == n - 3
        crossIdx == n - 2
        latestIdx == n - 1
    IN
    IF n < 3 THEN Skipped("short", "null", crossIdx, Undef, Undef, Undef)
    ELSE
    LET prevClose == At(closes, prevIdx)
        crossClose == At(closes, crossIdx)
        latestClose == At(closes, latestIdx)
        prevPsar == At(r.psarArr, prevIdx)
        crossPsar == At(r.psarArr, crossIdx)
        direction == Detect(UpCond(prevClose, prevPsar, crossClose, crossPsar),
                            DownCond(prevClose, prevPsar, crossClose, crossPsar))
        currentSide == Side(crossClose, crossPsar)
        sinceFlip == WalkBack(closes, r.psarArr, crossIdx - 1, currentSide)
        ema200 == At(r.ema200Arr, crossIdx)
        adxVal == At(r.adxArr, crossIdx)
    IN
    IF direction = "null"
    THEN Skipped("noflip", direction, crossIdx, Undef, Undef, Undef)
    ELSE IF ~Continued(direction, crossClose, latestClose)
    THEN Skipped("nocontinuation", direction, crossIdx, Undef, Undef, Undef)
    ELSE IF r.rangeMultiplier > 0 /\ crossIdx >= RangeLookback
            /\ RangeTooSmall(highs, lows, crossIdx, r.rangeMultiplier)
    THEN Skipped("range", direction, crossIdx, Undef, Undef, Undef)
    ELSE IF r.minFlips > 1 /\ sinceFlip < r.minFlips
    THEN Skipped("minflips", direction, crossIdx, sinceFlip, Undef, Undef)
    ELSE IF ema200 # Undef
            /\ ((direction = "UP" /\ crossClose < ema200)
                \/ (direction = "DOWN" /\ crossClose > ema200))
    THEN Skipped("ema", direction, crossIdx, sinceFlip, ema200, Undef)
    ELSE IF adxVal # Undef /\ adxVal < r.adxThreshold
    THEN Skipped("adx", direction, crossIdx, sinceFlip, ema200, adxVal)
    ELSE
    LET c1 == IF adxVal # Undef
              THEN BaseConfidence + Min(MaxBonus, (adxVal - r.adxThreshold) * 2)
              ELSE BaseConfidence
        c2 == IF r.rangeMultiplier > 0 THEN c1 + RangeBonus ELSE c1
    IN  [signal |-> direction, confidence |-> Min(c2, 100), skipped |-> FALSE,
         outcome |-> "signal", direction |-> direction, crossIdx |-> crossIdx,
         barsSinceFlip |-> sinceFlip, ema200 |-> ema200, adxVal |-> adxVal]

PsarSignal(r) ==
    LET n == Len(r.candles)
        closes == Closes(r.candles)
        prevIdx == n - 3
        crossIdx == n - 2
        latestIdx == n - 1
    IN
    IF n < 3 THEN Skipped("short", "null", crossIdx, Undef, Undef, Undef)
    ELSE
    LET prevClose == At(closes, prevIdx)
        crossClose == At(closes, crossIdx)
        latestClose == At(closes, latestIdx)
        prevPsar == At(r.psarArr, prevIdx)
        crossPsar == At(r.psarArr, crossIdx)
        ema200 == At(r.ema200Arr, crossIdx)
        direction == Detect(UpCond(prevClose, prevPsar, crossClose, crossPsar),
                            DownCond(prevClose, prevPsar, crossClose, crossPsar))
    IN
    IF direction = "null"
    THEN Skipped("noflip", direction, crossIdx, Undef, ema200, Undef)
    ELSE IF ~Continued(direction, crossClose, latestClose)
    THEN Skipped("nocontinuation", direction, crossIdx, Undef, ema200, Undef)
    ELSE IF ema200 # Undef
            /\ ((direction = "UP" /\ crossClose < ema200)
                \/ (direction = "DOWN" /\ crossClose > ema200))
    THEN Skipped("ema", direction, crossIdx, Undef, ema200, Undef)
    ELSE [signal |-> direction, confidence |-> PsarConfidence, skipped |-> FALSE,
          outcome |-> "signal", direction |-> direction, crossIdx |-> crossIdx,
          barsSinceFlip |-> Undef, ema200 |-> ema200, adxVal |-> Undef]

\* ------------------------------------------------------------- inputs
Candle(c) == [close |-> c, high |-> c + 1, low |-> c - 1]

\* per-bar indicator values of n bars: Undef in the warm-up, then a value of
\* vals at the (1-based) positions in free and dflt at the others
Series(n, warmup, free, vals, dflt) ==
    {[k \in 1..n |-> IF k <= warmup THEN Undef
                     ELSE IF k \in free THEN f[k] ELSE dflt] :
        f \in [free -> vals]}

NoSignal == Skipped("none", "null", Undef, Undef, Undef, Undef)
NoResult == [total |-> 0, correct |-> 0, accuracy |-> [num |-> 0, den |-> 1]]

Fresh ==
    /\ i = 0
    /\ totalTrades = 0
    /\ correctTrades = 0
    /\ barsSinceFlip = 0
    /\ iter = NoIter
    /\ trades = <<>>
    /\ result = NoResult
    /\ window = 2
    /\ signal = NoSignal
    /\ signals = <<>>
    /\ openTrades = <<>>
    /\ resolved = <<>>
    /\ inflight = 0
    /\ ticks = 0
    /\ log = <<>>

\* the programs that read no EMA50, EMA100 or Keltner channel
NoChannels == fastOf = <<>> /\ slowOf = <<>> /\ kcOf = <<>> /\ oscOf = <<>>

\* price family: every close sequence and every PSAR value at the bars in
\* free (a flat PSAR elsewhere), indicators that let a confirmed flip through
PriceInputs(n, free, flips) ==
    /\ candles \in [1..n -> {Candle(c) : c \in CloseVals}]
    /\ psarOf \in UNION {Series(n, PsarWarmup, free, PsarVals, p) : p \in PsarVals}
    /\ emaOf \in Series(n, EmaWarmup, {}, EmaVals, EmaNeutral)
    /\ adxOf \in Series(n, AdxWarmup, {}, AdxVals, AdxStrong)
    /\ adxThreshold \in AdxThresholds
    /\ minFlips \in 1..flips
    /\ rangeMultiplier = 0
    /\ NoChannels

\* closes that cross a flat PSAR p upward (p low) or downward (p high)
IndCloses(p) == IF p = 2 THEN 2..4 ELSE 1..3

\* indicator family: a flat PSAR, closes around it, and every EMA series
\* or every ADX series
IndicatorInputs(n) ==
    /\ \E p \in PsarVals :
        /\ psarOf = [k \in 1..n |-> p]
        /\ candles \in [1..n -> {Candle(c) : c \in IndCloses(p)}]
    /\ \/ /\ emaOf \in Series(n, EmaWarmup, 1..n, EmaVals, EmaNeutral)
          /\ adxOf \in Series(n, AdxWarmup, {}, AdxVals, AdxStrong)
       \/ /\ emaOf \in Series(n, EmaWarmup, {}, EmaVals, EmaNeutral)
          /\ adxOf \in Series(n, AdxWarmup, 1..n, AdxVals, AdxStrong)
    /\ adxThreshold \in AdxThresholds
    /\ minFlips = 1
    /\ rangeMultiplier = 0
    /\ NoChannels

InitBatch ==
    /\ \/ PriceInputs(MinData, 1..(MinData - 2), MaxMinFlips) /\ expiryBars = 1
       \/ PriceInputs(MaxBars, {}, MaxMinFlips) /\ expiryBars \in 1..MaxExpiry
       \/ IndicatorInputs(MaxBars) /\ expiryBars = 1
       \/ PriceInputs(MinData - 1, {}, 1) /\ expiryBars = 1
    /\ lookback = 0
    /\ pc = "start"
    /\ Fresh

\* entry: too few candles throw, otherwise the counters are set and the
\* loop starts at index 1
Enter ==
    /\ pc = "start"
    /\ IF Len(candles) < MinData
       THEN pc' = "thrown" /\ i' = i
       ELSE pc' = "loop" /\ i' = 1
    /\ totalTrades' = 0
    /\ correctTrades' = 0
    /\ barsSinceFlip' = 0
    /\ UNCHANGED <<inputs, iter, trades, result, liveVars, signals, tripleVars, driverVars>>

Step ==
    /\ pc = "loop"
    /\ InLoop(Run, i)
    /\ LET it == Iterate(Run, i, barsSinceFlip)
       IN  /\ iter' = it
           /\ barsSinceFlip' = it.barsSinceFlip
           /\ totalTrades' = IF it.outcome = "trade" THEN totalTrades + 1 ELSE totalTrades
           /\ correctTrades' = IF it.outcome = "trade" /\ it.isWin
                               THEN correctTrades + 1 ELSE correctTrades
           /\ trades' = IF it.outcome = "trade" THEN Append(trades, it) ELSE trades
    /\ i' = i + 1
    /\ UNCHANGED <<inputs, pc, result, liveVars, signals, tripleVars, driverVars>>

Return ==
    /\ pc = "loop"
    /\ ~InLoop(Run, i)
    /\ pc' = "done"
    /\ result' = [total |-> totalTrades, correct |-> correctTrades,
                  accuracy |-> Accuracy(correctTrades, totalTrades)]
    /\ UNCHANGED <<inputs, i, totalTrades, correctTrades, barsSinceFlip, iter,
                   trades, liveVars, signals, tripleVars, driverVars>>

NextBatch == Enter \/ Step \/ Return

\* ------------------------------------------------- scenario inputs
\* closes on the side of the flat PSAR that sides names, bar by bar
SideCloses(sides) ==
    {[k \in 1..Len(sides) |-> Candle(f[k])] :
        f \in {g \in [1..Len(sides) -> BelowVals \cup AboveVals] :
                  \A k \in 1..Len(sides) :
                      g[k] \in (IF sides[k] = "below" THEN BelowVals ELSE AboveVals)}}

StepSide(F, k) == IF k < F THEN "below" ELSE "above"

BlipSide(F, k) == IF k >= F /\ k <= F + 1 THEN "above" ELSE "below"

\* runs of backtestStrategy on longer bar sequences around a flat PSAR, with
\* an EMA200 and an ADX that reject nothing: every close sequence with a
\* holding period of three bars; one change of side; a two-bar excursion
InitScenario ==
    /\ \/ /\ candles \in {[k \in 1..ScenarioBars |->
                              IF k \in 2..(ScenarioBars - 2) \cup {ScenarioBars}
                              THEN Candle(f[k]) ELSE Candle(1)] :
                          f \in [2..(ScenarioBars - 2) \cup {ScenarioBars}
                                    -> OverlapVals]}
          /\ minFlips = 1
          /\ expiryBars = OverlapExpiry
       \/ /\ \E F \in 2..(ScenarioBars - 3) :
                candles \in SideCloses([k \in 1..ScenarioBars |-> StepSide(F, k - 1)])
          /\ minFlips = 1
          /\ expiryBars = 1
       \/ /\ \E F \in (BlipMinFlips + 1)..(ScenarioBars - 3) :
                candles \in SideCloses([k \in 1..ScenarioBars |-> BlipSide(F, k - 1)])
          /\ minFlips = BlipMinFlips
          /\ expiryBars = 1
    /\ psarOf = [k \in 1..ScenarioBars |-> ScenarioPsar]
    /\ emaOf \in Series(ScenarioBars, EmaWarmup, {}, EmaVals, ScenarioPsar)
    /\ adxOf \in Series(ScenarioBars, AdxWarmup, {}, AdxVals, AdxStrong)
    /\ adxThreshold \in AdxThresholds
    /\ rangeMultiplier = 0
    /\ NoChannels
    /\ lookback = 0
    /\ pc = "start"
    /\ Fresh

SpecScenario == InitScenario /\ [][NextBatch]_vars

\* ----------------------------------------------------------- live calls
\* Calls of the exported signal functions on the first `window` bars, each
\* call with one bar more than the one before. (The drivers, which call
\* them only on enough candles, are modelled further down.)
LiveRun(n) ==
    LiveRunOf(SubSeq(candles, 1, n), psarOf, emaOf, adxOf, adxThreshold,
              minFlips, rangeMultiplier)

InitLive ==
    /\ \/ PriceInputs(LiveMaxBars, 1..(LiveMaxBars - 1), LiveMaxMinFlips) /\ pc = "psarAdx"
       \/ PriceInputs(LiveMaxBars, 1..(LiveMaxBars - 1), 1) /\ pc = "psar"
       \/ IndicatorInputs(LiveMaxBars) /\ pc \in {"psarAdx", "psar"}
    /\ expiryBars = 1
    /\ lookback = 0
    /\ Fresh

\* one call of psarAdxSignal(candles, config)
PollPsarAdx ==
    /\ pc = "psarAdx"
    /\ window < Len(candles)
    /\ window' = window + 1
    /\ signal' = PsarAdxSignal(LiveRun(window'))
    /\ UNCHANGED <<inputs, pc, batchVars, signals, tripleVars, driverVars>>

\* one call of psarSignal(candles)
PollPsar ==
    /\ pc = "psar"
    /\ window < Len(candles)
    /\ window' = window + 1
    /\ signal' = PsarSignal(LiveRun(window'))
    /\ UNCHANGED <<inputs, pc, batchVars, signals, tripleVars, driverVars>>

NextLive == PollPsarAdx \/ PollPsar

\* ------------------------------- live drivers (mainLoop_psar_adx.js, mainLoop_psar.js)
\* the record saveSignal appends to the log file; flipBar is not written to
\* the file: it keeps the bar the signal is about, to tell records apart
LogEntry(sig, price) ==
    [signal |-> sig.signal, confidence |-> sig.confidence, entryPrice |-> price,
     result |-> "PENDING", confirmedAt |-> Null, endPrice |-> Null,
     flipBar |-> sig.crossIdx]

\* the lengths of the candle array a fetch can return: none (a failed
\* fetch), too few, or enough
FetchLengths == {0} \cup ((LoopMinData - 1)..MaxBars)

\* After module load: the first runLoop() call is awaiting its fetch and the
\* timer is armed.
InitDriver ==
    /\ \E p \in PsarVals :
        /\ psarOf = [k \in 1..MaxBars |-> p]
        /\ candles \in [1..MaxBars -> {Candle(c) : c \in IndCloses(p)}]
    /\ emaOf \in Series(MaxBars, EmaWarmup, {}, EmaVals, EmaNeutral)
    /\ adxOf \in Series(MaxBars, AdxWarmup, {}, AdxVals, AdxStrong)
    /\ adxThreshold \in AdxThresholds
    /\ minFlips = 1
    /\ rangeMultiplier = 0
    /\ NoChannels
    /\ expiryBars = 1
    /\ lookback = 0
    /\ pc \in {"driverPsarAdx", "driverPsar"}
    /\ i = 0
    /\ totalTrades = 0
    /\ correctTrades = 0
    /\ barsSinceFlip = 0
    /\ iter = NoIter
    /\ trades = <<>>
    /\ result = NoResult
    /\ window = 0
    /\ signal = NoSignal
    /\ signals = <<>>
    /\ openTrades = <<>>
    /\ resolved = <<>>
    /\ inflight = 1
    /\ ticks = 0
    /\ log = <<>>

\* the interval timer fires: runLoop is called and runs up to its await
\* (followed while fewer than MaxInflight invocations wait; the timer never
\* stops)
TimerTick ==
    /\ pc \in {"driverPsarAdx", "driverPsar"}
    /\ inflight < MaxInflight
    /\ ticks' = IF ticks < MaxTicks THEN ticks + 1 ELSE ticks
    /\ inflight' = inflight + 1
    /\ UNCHANGED <<inputs, pc, batchVars, liveVars, signals, tripleVars, log>>

\* the fetch of one waiting runLoop resolves with n candles: the rest of
\* runLoop runs to its end, saveSignal included (followed while the log
\* has fewer than MaxLog records)
FetchResolves ==
    /\ pc \in {"driverPsarAdx", "driverPsar"}
    /\ inflight > 0
    /\ inflight' = inflight - 1
    /\ \E n \in FetchLengths :
        /\ window' = n
        /\ IF n < LoopMinData
           THEN signal' = signal /\ log' = log
           ELSE LET sig == IF pc = "driverPsarAdx" THEN PsarAdxSignal(LiveRun(n))
                           ELSE PsarSignal(LiveRun(n))
                IN  /\ signal' = sig
                    /\ IF ~sig.skipped /\ sig.signal \in {"UP", "DOWN"}
                       THEN /\ Len(log) < MaxLog
                            /\ log' = Append(log, LogEntry(sig, candles[n].close))
                       ELSE log' = log
    /\ UNCHANGED <<inputs, pc, batchVars, signals, tripleVars, ticks>>

NextDriver == TimerTick \/ FetchResolves

SpecDriver == InitDriver /\ [][NextDriver]_vars

\* the event loop runs every timer callback and every resumed invocation
\* that is ready
SpecDriverFair ==
    SpecDriver /\ WF_vars(TimerTick) /\ WF_vars(FetchResolves)

\* ------------------------------- look-back PSAR backtest (part_002)
LookbackRunOf(cs, ps, es, L) ==
    [candles |-> cs,
     psar |-> Calculate(ps, PsarWarmup, Len(cs)),
     ema200Arr |-> Calculate(es, EmaWarmup, Len(cs)),
     lookback |-> L]

\* belowCount and aboveCount of the bars from..to (0-based, inclusive)
RECURSIVE BelowCount(_, _, _, _)
BelowCount(closes, psar, from, to) ==
    IF from > to THEN 0
    ELSE (IF Le(At(closes, from), At(psar, from)) THEN 1 ELSE 0)
            + BelowCount(closes, psar, from + 1, to)

RECURSIVE AboveCount(_, _, _, _)
AboveCount(closes, psar, from, to) ==
    IF from > to THEN 0
    ELSE (IF Ge(At(closes, from), At(psar, from)) THEN 1 ELSE 0)
            + AboveCount(closes, psar, from + 1, to)

\* one iteration of the loop at index k
LookbackIterate(r, k) ==
    LET closes == Closes(r.candles)
        psarPrev == At(r.psar, k - 1)
        psarCurr == At(r.psar, k)
    IN
    IF psarPrev = Undef \/ psarCurr = Undef
    THEN NoTrade(k, "nopsar", "null", 0, Undef, Undef)
    ELSE
    LET closePrev == At(closes, k - 1)
        closeCurr == At(closes, k)
        closeNext == At(closes, k + 1)
        ema200 == IF At(r.ema200Arr, k) # Undef THEN At(r.ema200Arr, k) ELSE Null
        belowCount == BelowCount(closes, r.psar, k - r.lookback, k - 1)
        aboveCount == AboveCount(closes, r.psar, k - r.lookback, k - 1)
        direction ==
            Detect(belowCount = r.lookback
                       /\ UpCond(closePrev, psarPrev, closeCurr, psarCurr),
                   aboveCount = r.lookback
                       /\ DownCond(closePrev, psarPrev, closeCurr, psarCurr))
    IN
    IF direction = "null"
    THEN NoTrade(k, "noflip", direction, 0, ema200, Undef)
    ELSE IF ~Continued(direction, closeCurr, closeNext)
    THEN NoTrade(k, "nocontinuation", direction, 0, ema200, Undef)
    ELSE IF ema200 # Null
            /\ ((direction = "UP" /\ closeCurr < ema200)
                \/ (direction = "DOWN" /\ closeCurr > ema200))
    THEN NoTrade(k, "ema", direction, 0, ema200, Undef)
    ELSE
    LET entryPrice == closeNext
        exitPrice == At(closes, k + 2)
    IN  [bar |-> k, outcome |-> "trade", direction |-> direction,
         barsSinceFlip |-> 0, ema200 |-> ema200, adx |-> Undef,
         entryPrice |-> entryPrice, exitPrice |-> exitPrice,
         isWin |-> IsWin(direction, entryPrice, exitPrice)]

LookbackRun == LookbackRunOf(candles, psarOf, emaOf, lookback)

\* the loop condition i < candles.length - 2
LookbackInLoop(r, k) == k < Len(r.candles) - 2

\* closes around a flat PSAR, a neutral EMA200, every look-back
InitLookback ==
    /\ \E p \in PsarVals :
        \/ /\ psarOf = [k \in 1..MaxBars |-> p]
           /\ candles \in [1..MaxBars -> {Candle(c) : c \in IndCloses(p)}]
           /\ emaOf \in Series(MaxBars, EmaWarmup, {}, EmaVals, EmaNeutral)
        \/ /\ psarOf = [k \in 1..(LookbackMinData - 1) |-> p]
           /\ candles = [k \in 1..(LookbackMinData - 1) |-> Candle(p)]
           /\ emaOf \in Series(LookbackMinData - 1, EmaWarmup, {}, EmaVals, EmaNeutral)
    /\ adxOf = <<>>
    /\ NoChannels
    /\ lookback \in 1..MaxLookback
    /\ expiryBars = 1
    /\ adxThreshold = 0
    /\ minFlips = 0
    /\ rangeMultiplier = 0
    /\ pc = "lookbackStart"
    /\ Fresh

\* entry: too few candles return early, otherwise the loop starts at lookback
LookbackEnter ==
    /\ pc = "lookbackStart"
    /\ IF Len(candles) < LookbackMinData
       THEN pc' = "lookbackShort" /\ i' = i
       ELSE pc' = "lookback" /\ i' = lookback
    /\ totalTrades' = 0
    /\ correctTrades' = 0
    /\ UNCHANGED <<inputs, barsSinceFlip, iter, trades, result, liveVars, signals, tripleVars, driverVars>>

LookbackStep ==
    /\ pc = "lookback"
    /\ LookbackInLoop(LookbackRun, i)
    /\ LET it == LookbackIterate(LookbackRun, i)
       IN  /\ iter' = it
           /\ totalTrades' = IF it.outcome = "trade" THEN totalTrades + 1 ELSE totalTrades
           /\ correctTrades' = IF it.outcome = "trade" /\ it.isWin
                               THEN correctTrades + 1 ELSE correctTrades
           /\ trades' = IF it.outcome = "trade" THEN Append(trades, it) ELSE trades
    /\ i' = i + 1
    /\ UNCHANGED <<inputs, pc, barsSinceFlip, result, liveVars, signals, tripleVars, driverVars>>

LookbackReturn ==
    /\ pc = "lookback"
    /\ ~LookbackInLoop(LookbackRun, i)
    /\ pc' = "lookbackDone"
    /\ result' = [total |-> totalTrades, correct |-> correctTrades,
                  accuracy |-> Accuracy(correctTrades, totalTrades)]
    /\ UNCHANGED <<inputs, i, totalTrades, correctTrades, barsSinceFlip, iter,
                   trades, liveVars, signals, tripleVars, driverVars>>

NextLookback == LookbackEnter \/ LookbackStep \/ LookbackReturn

\* ------------------------------------------------ range-filter inputs
\* half the high-low range of a bar, and the range multipliers tried
HalfRanges == {1, 2}
RangeMultipliers == {0, 1, 2}

RangeCandle(c, w) == [close |-> c, high |-> c + w, low |-> c - w]

\* backtestStrategy and psarAdxSignal with the range filter off and on: a
\* flat PSAR, closes around it, bars of two widths, filters that pass
InitRange ==
    /\ \E p \in PsarVals :
        /\ psarOf = [k \in 1..MinData |-> p]
        /\ candles \in {[k \in 1..MinData |->
                            RangeCandle(c[k], IF k < MinData THEN w[k] ELSE 1)] :
                        c \in [1..MinData -> IndCloses(p)],
                        w \in [1..(MinData - 1) -> HalfRanges]}
    /\ emaOf \in Series(MinData, EmaWarmup, {}, EmaVals, EmaNeutral)
    /\ adxOf \in Series(MinData, AdxWarmup, {}, AdxVals, AdxStrong)
    /\ adxThreshold \in AdxThresholds
    /\ minFlips = 1
    /\ rangeMultiplier \in RangeMultipliers
    /\ NoChannels
    /\ expiryBars = 1
    /\ lookback = 0
    /\ pc \in {"start", "psarAdx"}
    /\ Fresh

NextRange == NextBatch \/ PollPsarAdx

SpecRange == InitRange /\ [][NextRange]_vars

\* ------------------------------------------------- confidence inputs
\* ADX values below, at and above the threshold, up to margins beyond the
\* cap of the bonus
ConfidenceAdxVals == {1, 2, 3, 10, 17, 18, 30}

\* the same ADX value a at every bar that has one
FlatAdx(n, a) == [k \in 1..n |-> IF k <= AdxWarmup THEN Undef ELSE a]

\* psarAdxSignal on closes around a flat PSAR, every ADX level, the range
\* filter off and on
InitConfidence ==
    /\ \E p \in PsarVals :
        /\ psarOf = [k \in 1..LiveMaxBars |-> p]
        /\ candles \in [1..LiveMaxBars -> {Candle(c) : c \in IndCloses(p)}]
    /\ emaOf \in Series(LiveMaxBars, EmaWarmup, {}, EmaVals, EmaNeutral)
    /\ adxOf \in {FlatAdx(LiveMaxBars, a) : a \in ConfidenceAdxVals}
    /\ adxThreshold \in AdxThresholds
    /\ minFlips = 1
    /\ rangeMultiplier \in {0, 1}
    /\ NoChannels
    /\ expiryBars = 1
    /\ lookback = 0
    /\ pc = "psarAdx"
    /\ Fresh

SpecConfidence == InitConfidence /\ [][PollPsarAdx]_vars

\* ----------------------------------------------- candles with a volume
\* what getSyntheticVolume can return (scaled)
VolumeVals == {1, 4, 5}

\* the volume columns of n candles: every volume on the three bars after
\* the first
VolumeColumns(n) ==
    {[k \in 1..n |-> IF k \in 2..4 THEN v[k] ELSE 1] : v \in [2..4 -> VolumeVals]}

\* a candle as loadCandles builds it, with its random volume
VolumeCandle(c, v) == [close |-> c, high |-> c + 1, low |-> c - 1, volume |-> v]

\* backtestStrategy on candles that carry every volume column
InitVolume ==
    /\ \E p \in PsarVals :
        /\ psarOf = [k \in 1..MinData |-> p]
        /\ candles \in {[k \in 1..MinData |-> VolumeCandle(c[k], v[k])] :
                        c \in [1..MinData -> IndCloses(p)],
                        v \in VolumeColumns(MinData)}
    /\ emaOf \in Series(MinData, EmaWarmup, {}, EmaVals, EmaNeutral)
    /\ adxOf \in Series(MinData, AdxWarmup, {}, AdxVals, AdxStrong)
    /\ adxThreshold \in AdxThresholds
    /\ minFlips = 1
    /\ rangeMultiplier = 0
    /\ NoChannels
    /\ expiryBars = 1
    /\ lookback = 0
    /\ pc = "start"
    /\ Fresh

SpecVolume == InitVolume /\ [][NextBatch]_vars

\* ------------------------------------------ runs with unusual arguments
\* what parseInt gives for --expiry, --minFlips and --lookback when the
\* argument is zero or negative
NonPositive == {-1, 0}

\* backtestStrategy and the look-back backtest called with a holding period,
\* a minFlips or a lookback that is zero or negative
InitMisconfig ==
    /\ \E p \in PsarVals :
        /\ psarOf = [k \in 1..MaxBars |-> p]
        /\ candles \in [1..MaxBars -> {Candle(c) : c \in IndCloses(p)}]
    /\ emaOf \in Series(MaxBars, EmaWarmup, {}, EmaVals, EmaNeutral)
    /\ NoChannels
    /\ rangeMultiplier = 0
    /\ \/ /\ adxOf \in Series(MaxBars, AdxWarmup, {}, AdxVals, AdxStrong)
          /\ adxThreshold \in AdxThresholds
          /\ \/ expiryBars \in NonPositive /\ minFlips = 1
             \/ expiryBars = 1 /\ minFlips \in NonPositive
          /\ lookback = 0
          /\ pc = "start"
       \/ /\ adxOf = <<>>
          /\ adxThreshold = 0
          /\ expiryBars = 1
          /\ minFlips = 0
          /\ lookback = 0
          /\ pc = "lookbackStart"
    /\ Fresh

NextMisconfig == NextBatch \/ NextLookback

SpecMisconfig == InitMisconfig /\ [][NextMisconfig]_vars

\* ------------------------------------------ Keltner backtest (part_002)
KeltnerRunOf(cs, ks, fs, es, e) ==
    [candles |-> cs,
     kcArr |-> Calculate(ks, KcWarmup, Len(cs)),
     ema50Arr |-> Calculate(fs, FastWarmup, Len(cs)),
     ema200Arr |-> Calculate(es, EmaWarmup, Len(cs)),
     expiryBars |-> e]

\* close crosses above the upper band, trend neutral or bearish
KeltnerDown(closePrev, closeCurr, kcUpper, ema50, ema200) ==
    Le(closePrev, kcUpper) /\ Gt(closeCurr, kcUpper) /\ ema50 <= ema200

\* close crosses below the lower band, trend neutral or bullish
KeltnerUp(closePrev, closeCurr, kcLower, ema50, ema200) ==
    Ge(closePrev, kcLower) /\ Lt(closeCurr, kcLower) /\ ema50 >= ema200

\* DOWN is tested first; an UP on top of a DOWN leaves no direction
KeltnerDetect(down, up) ==
    LET d1 == IF down THEN "DOWN" ELSE "null"
    IN  IF up THEN (IF d1 # "null" THEN "null" ELSE "UP") ELSE d1

\* one iteration of the loop at index k; the bar it looks at is idx
KeltnerIterate(r, k) ==
    LET closes == Closes(r.candles)
        idx == k + KcWarmup
    IN
    IF k >= Len(r.kcArr)
    THEN NoTrade(idx, "nokc", "null", 0, Undef, Undef)
    ELSE
    LET kc == r.kcArr[k + 1]
        ema50 == At(r.ema50Arr, idx)
        ema200 == At(r.ema200Arr, idx)
    IN
    IF ema50 = Undef \/ ema200 = Undef
    THEN NoTrade(idx, "noema", "null", 0, ema200, Undef)
    ELSE
    LET closeCurr == At(closes, idx)
        closePrev == At(closes, idx - 1)
        direction == KeltnerDetect(
            KeltnerDown(closePrev, closeCurr, kc.upper, ema50, ema200),
            KeltnerUp(closePrev, closeCurr, kc.lower, ema50, ema200))
    IN
    IF direction = "null"
    THEN NoTrade(idx, "noflip", direction, 0, ema200, Undef)
    ELSE
    LET entry == At(closes, idx + 1)
        exit == At(closes, idx + 1 + r.expiryBars)
    IN  [bar |-> idx, outcome |-> "trade", direction |-> direction,
         barsSinceFlip |-> 0, ema200 |-> ema200, adx |-> Undef,
         entryPrice |-> entry, exitPrice |-> exit,
         isWin |-> IsWin(direction, entry, exit)]

KeltnerRun == KeltnerRunOf(candles, kcOf, fastOf, emaOf, expiryBars)

\* every close sequence, a flat channel, every EMA50 at the values the loop
\* reads; and the sequences too short for one EMA200 value
KeltnerInputs ==
    /\ \/ /\ candles \in {[k \in 1..MaxBars |->
                              IF k < MaxBars THEN Candle(f[k]) ELSE Candle(TrendClose)] :
                          f \in [1..(MaxBars - 1) -> CloseVals]}
          /\ fastOf \in Series(MaxBars, FastWarmup,
                               (KcWarmup + FastWarmup + 1)..(MaxBars - EmaWarmup + FastWarmup),
                               EmaVals, EmaNeutral)
       \/ /\ candles \in [1..EmaWarmup -> {Candle(c) : c \in CloseVals}]
          /\ fastOf \in Series(EmaWarmup, FastWarmup, {}, EmaVals, EmaNeutral)
    /\ kcOf \in {[k \in 1..Len(candles) |-> kc] : kc \in KcVals}
    /\ emaOf \in Series(Len(candles), EmaWarmup, {}, EmaVals, EmaNeutral)
    /\ psarOf = <<>> /\ adxOf = <<>> /\ slowOf = <<>> /\ oscOf = <<>>
    /\ adxThreshold = 0
    /\ minFlips = 0
    /\ rangeMultiplier = 0
    /\ lookback = 0

InitKeltner ==
    /\ KeltnerInputs
    /\ expiryBars = 1
    /\ pc = "keltner"
    /\ Fresh

\* the same inputs with the longer holding periods
InitKeltnerExpiry ==
    /\ KeltnerInputs
    /\ expiryBars \in 2..EmaWarmup
    /\ pc = "keltner"
    /\ Fresh

KeltnerStep ==
    /\ pc = "keltner"
    /\ i < Len(candles) - (expiryBars + 1)
    /\ LET it == KeltnerIterate(KeltnerRun, i)
       IN  /\ iter' = it
           /\ totalTrades' = IF it.outcome = "trade" THEN totalTrades + 1 ELSE totalTrades
           /\ correctTrades' = IF it.outcome = "trade" /\ it.isWin
                               THEN correctTrades + 1 ELSE correctTrades
           /\ trades' = IF it.outcome = "trade" THEN Append(trades, it) ELSE trades
    /\ i' = i + 1
    /\ UNCHANGED <<inputs, pc, barsSinceFlip, result, liveVars, signals, tripleVars, driverVars>>

KeltnerReturn ==
    /\ pc = "keltner"
    /\ ~(i < Len(candles) - (expiryBars + 1))
    /\ pc' = "keltnerDone"
    /\ result' = [total |-> totalTrades, correct |-> correctTrades,
                  accuracy |-> Accuracy(correctTrades, totalTrades)]
    /\ UNCHANGED <<inputs, i, totalTrades, correctTrades, barsSinceFlip, iter,
                   trades, liveVars, signals, tripleVars, driverVars>>

NextKeltner == KeltnerStep \/ KeltnerReturn

SpecKeltnerExpiry == InitKeltnerExpiry /\ [][NextKeltner]_vars

\* --------------------------------------- trendStrategy5m (part_003)
TrendRunOf(cs, fs, ss, ts, as, thr) ==
    [candles |-> cs,
     fastEma |-> Calculate(fs, FastWarmup, Len(cs)),
     slowEma |-> Calculate(ss, SlowWarmup, Len(cs)),
     trendEma |-> Calculate(ts, EmaWarmup, Len(cs)),
     adxValues |-> Calculate(as, AdxWarmup, Len(cs)),
     adxThreshold |-> thr]

BullishCross(prevFast, prevSlow, currFast, currSlow, price, currTrend) ==
    Le(prevFast, prevSlow) /\ Gt(currFast, currSlow) /\ Gt(price, currTrend)

\* variant: the bearish test left as a copy of the bullish test
BearishCrossCopied(prevFast, prevSlow, currFast, currSlow, price, currTrend) ==
    Le(prevFast, prevSlow) /\ Gt(currFast, currSlow) /\ Gt(price, currTrend)

BearishCross(prevFast, prevSlow, currFast, currSlow, price, currTrend) ==
    Ge(prevFast, prevSlow) /\ Lt(currFast, currSlow) /\ Lt(price, currTrend)

\* min((adx - adxThreshold) / 50 + 0.5, 0.95), in hundredths
TrendConfidence(adx, thr) == Min(2 * (adx - thr) + 50, 95)

\* the signals the loop pushes at index k
TrendSignalsAt(r, k) ==
    LET n == Len(r.candles)
        fastIdx == k - (n - Len(r.fastEma))
        slowIdx == k - (n - Len(r.slowEma))
        trendIdx == k - (n - Len(r.trendEma))
        adxIdx == k - (n - Len(r.adxValues))
    IN
    IF fastIdx < 1 \/ slowIdx < 1 \/ trendIdx < 0 \/ adxIdx < 0 THEN <<>>
    ELSE
    LET prevFast == At(r.fastEma, fastIdx - 1)
        prevSlow == At(r.slowEma, slowIdx - 1)
        currFast == At(r.fastEma, fastIdx)
        currSlow == At(r.slowEma, slowIdx)
        currTrend == At(r.trendEma, trendIdx)
        adx == At(r.adxValues, adxIdx)
        price == At(Closes(r.candles), k)
    IN
    IF adx = Undef \/ adx < r.adxThreshold THEN <<>>
    ELSE (IF BullishCross(prevFast, prevSlow, currFast, currSlow, price, currTrend)
          THEN <<[index |-> k, direction |-> "UP",
                  confidence |-> TrendConfidence(adx, r.adxThreshold)]>>
          ELSE <<>>)
         \o
         (IF BearishCross(prevFast, prevSlow, currFast, currSlow, price, currTrend)
          THEN <<[index |-> k, direction |-> "DOWN",
                  confidence |-> TrendConfidence(adx, r.adxThreshold)]>>
          ELSE <<>>)

TrendRun == TrendRunOf(candles, fastOf, slowOf, emaOf, adxOf, adxThreshold)

\* the 1-based positions of the bars the loop can evaluate, and of the bar
\* before them
TrendFree == (EmaWarmup + 1)..(TrendBars - TrendTail)

\* a flat close, every EMA50, EMA100, EMA200 and ADX at the evaluated bars
InitTrend ==
    /\ candles = [k \in 1..TrendBars |-> Candle(TrendClose)]
    /\ fastOf \in Series(TrendBars, FastWarmup, {EmaWarmup} \cup TrendFree, FastVals, 1)
    /\ slowOf \in Series(TrendBars, SlowWarmup, {EmaWarmup} \cup TrendFree, SlowVals, 1)
    /\ emaOf \in Series(TrendBars, EmaWarmup, TrendFree, TrendVals, 1)
    /\ adxOf \in Series(TrendBars, AdxWarmup, TrendFree, AdxVals, AdxStrong)
    /\ psarOf = <<>> /\ kcOf = <<>> /\ oscOf = <<>>
    /\ adxThreshold \in AdxThresholds
    /\ expiryBars = 0
    /\ minFlips = 0
    /\ rangeMultiplier = 0
    /\ lookback = 0
    /\ pc = "trend"
    /\ i = 1
    /\ totalTrades = 0
    /\ correctTrades = 0
    /\ barsSinceFlip = 0
    /\ iter = NoIter
    /\ trades = <<>>
    /\ result = NoResult
    /\ window = 2
    /\ signal = NoSignal
    /\ signals = <<>>
    /\ openTrades = <<>>
    /\ resolved = <<>>
    /\ inflight = 0
    /\ ticks = 0
    /\ log = <<>>

TrendStep ==
    /\ pc = "trend"
    /\ i < Len(candles) - TrendTail
    /\ signals' = signals \o TrendSignalsAt(TrendRun, i)
    /\ i' = i + 1
    /\ UNCHANGED <<inputs, pc, totalTrades, correctTrades, barsSinceFlip, iter,
                   trades, result, liveVars, tripleVars, driverVars>>

TrendReturn ==
    /\ pc = "trend"
    /\ ~(i < Len(candles) - TrendTail)
    /\ pc' = "trendDone"
    /\ UNCHANGED <<inputs, batchVars, liveVars, signals, tripleVars, driverVars>>

NextTrend == TrendStep \/ TrendReturn

\* --------------------- triple oscillator backtest (backtest_triple_oscillator.js)
\* the UP / DOWN / NONE decision of one bar
TripleSignal(osc, close, ema200) ==
    IF osc = "up" /\ Gt(close, ema200) THEN "UP"
    ELSE IF osc = "down" /\ Lt(close, ema200) THEN "DOWN"
    ELSE "NONE"

\* the open trades whose expiryIndex is k
Expired(open, k) == SelectSeq(open, LAMBDA t : t.expiryIndex = k)

\* variant: a counted trade is pushed back onto the list
RemainingAll(open, k) == open

\* variant: the two branches of the expiry test exchanged
RemainingDue(open, k) == SelectSeq(open, LAMBDA t : t.expiryIndex = k)

\* the list that replaces openTrades after the expiry pass of bar k
Remaining(open, k) == SelectSeq(open, LAMBDA t : t.expiryIndex # k)

TradeCorrect(trade, close) ==
    \/ (trade.direction = "UP" /\ close > trade.entryPrice)
    \/ (trade.direction = "DOWN" /\ close < trade.entryPrice)

\* the last value of calculateEMA(closes, 200) over the history up to bar k
LastEma(es, k) ==
    LET arr == Calculate(es, EmaWarmup, k + 1) IN At(arr, Len(arr) - 1)

\* the signal the loop computes at bar k
TripleSignalAt(cs, os, es, k) ==
    IF k + 1 < HistoryMin THEN "NONE"
    ELSE TripleSignal(os[k + 1], cs[k + 1].close, LastEma(es, k))

\* a flat close before the evaluated bars, every close, oscillator state and
\* EMA200 at them; and a bar sequence too short to run
InitTriple ==
    /\ \/ /\ candles \in {[k \in 1..MaxBars |->
                              IF k >= HistoryMin THEN Candle(f[k]) ELSE Candle(TrendClose)] :
                          f \in [HistoryMin..MaxBars -> 2..4]}
          /\ oscOf \in {[k \in 1..MaxBars |-> IF k >= HistoryMin THEN f[k] ELSE "none"] :
                        f \in [HistoryMin..MaxBars -> OscVals]}
          /\ emaOf \in Series(MaxBars, EmaWarmup, HistoryMin..MaxBars, EmaVals, EmaNeutral)
       \/ /\ candles = [k \in 1..(TripleMinData - 1) |-> Candle(TrendClose)]
          /\ oscOf \in [1..(TripleMinData - 1) -> OscVals]
          /\ emaOf \in Series(TripleMinData - 1, EmaWarmup, {}, EmaVals, EmaNeutral)
    /\ psarOf = <<>> /\ adxOf = <<>> /\ fastOf = <<>> /\ slowOf = <<>> /\ kcOf = <<>>
    /\ expiryBars = 1
    /\ adxThreshold = 0
    /\ minFlips = 0
    /\ rangeMultiplier = 0
    /\ lookback = 0
    /\ pc = "tripleStart"
    /\ Fresh

\* entry: too few candles return early, otherwise the loop starts at bar 0
\* with no open trade
TripleEnter ==
    /\ pc = "tripleStart"
    /\ IF Len(candles) < TripleMinData
       THEN pc' = "tripleShort"
       ELSE pc' = "triple"
    /\ i' = 0
    /\ totalTrades' = 0
    /\ correctTrades' = 0
    /\ openTrades' = <<>>
    /\ UNCHANGED <<inputs, barsSinceFlip, iter, trades, result, liveVars, signals,
                   resolved, driverVars>>

\* one bar: the expiry pass counts and drops the trades due at this bar,
\* then a signal pushes a new trade
TripleStep ==
    /\ pc = "triple"
    /\ i < Len(candles)
    /\ LET close == candles[i + 1].close
           due == Expired(openTrades, i)
           remaining == Remaining(openTrades, i)
           sig == TripleSignalAt(candles, oscOf, emaOf, i)
           trade == [entryIndex |-> i, expiryIndex |-> i + 1, direction |-> sig,
                     entryPrice |-> close]
       IN  /\ totalTrades' = totalTrades + Len(due)
           /\ correctTrades' = correctTrades
                 + Len(SelectSeq(due, LAMBDA t : TradeCorrect(t, close)))
           /\ resolved' = resolved \o due
           /\ openTrades' = IF sig # "NONE" THEN Append(remaining, trade) ELSE remaining
           /\ trades' = IF sig # "NONE" THEN Append(trades, trade) ELSE trades
    /\ i' = i + 1
    /\ UNCHANGED <<inputs, pc, barsSinceFlip, iter, result, liveVars, signals, driverVars>>

TripleReturn ==
    /\ pc = "triple"
    /\ ~(i < Len(candles))
    /\ pc' = "tripleDone"
    /\ result' = [total |-> totalTrades, correct |-> correctTrades,
                  accuracy |-> Accuracy(correctTrades, totalTrades)]
    /\ UNCHANGED <<inputs, i, totalTrades, correctTrades, barsSinceFlip, iter,
                   trades, liveVars, signals, tripleVars, driverVars>>

NextTriple == TripleEnter \/ TripleStep \/ TripleReturn

SpecTriple == InitTriple /\ [][NextTriple]_vars

Init == InitBatch \/ InitLive \/ InitLookback \/ InitKeltner \/ InitTrend \/ InitTriple

Next == NextBatch \/ NextLive \/ NextLookback \/ NextKeltner \/ NextTrend \/ NextTriple

\* a run reaches index k: enough candles, and k inside the loop's range
Evaluated(r, k) == Len(r.candles) >= MinData /\ k >= 1 /\ InLoop(r, k)

SpecBatch == InitBatch /\ [][NextBatch]_vars

SpecLive == InitLive /\ [][NextLive]_vars

Spec == Init /\ [][Next]_vars

\* ================================================================ claims
\* The Series Aligner of the design: the value of a series of length M over
\* nBars bars at bar k.
ValueAt(series, nBars, k) ==
    IF k >= nBars - Len(series) THEN At(series, k - (nBars - Len(series))) ELSE Undef

OrUndef(v) == IF v = Null THEN Undef ELSE v

BatchIterated == pc \in {"loop", "done"} /\ iter.outcome \notin {"none", "nopsar"}

\* C1: the EMA and ADX values backtestStrategy uses at bar i are the values
\* aligned to bar i: series[i - (N - M)] when i >= N - M, undefined below.
C1_AlignedIndicatorRead ==
    BatchIterated =>
        /\ OrUndef(iter.ema200) = ValueAt(Run.ema200Arr, Len(candles), iter.bar)
        /\ OrUndef(iter.adx) = ValueAt(Run.adxArr, Len(candles), iter.bar)

\* the same bars cut after the first m, with the arguments of the run
Truncated(m) ==
    RunOf(SubSeq(candles, 1, m), psarOf, emaOf, adxOf, expiryBars, adxThreshold,
          minFlips, rangeMultiplier)

Decision(it) == IF it.outcome = "trade" THEN it.direction ELSE "NONE"

\* C2: no look-ahead: a run over the bars and a run over the same bars cut
\* after bar m-1 take the same decision (trade or not, and the direction) at
\* every index i both evaluate; the two inputs agree on bars 0..i+1.
C2_NoLookAhead ==
    pc = "done" =>
        \A m \in MinData..Len(candles) : \A k \in 1..Len(candles) :
            (Evaluated(Run, k) /\ Evaluated(Truncated(m), k))
                => Decision(IterationAt(Run, k)) = Decision(IterationAt(Truncated(m), k))

\* both tests of the detector hold on the values read at index k
ReadsBoth(closes, psar, k) ==
    /\ UpCond(At(closes, k - 1), At(psar, k - 1), At(closes, k), At(psar, k))
    /\ DownCond(At(closes, k - 1), At(psar, k - 1), At(closes, k), At(psar, k))

ReadsUp(closes, psar, k) ==
    UpCond(At(closes, k - 1), At(psar, k - 1), At(closes, k), At(psar, k))

ReadsDown(closes, psar, k) ==
    DownCond(At(closes, k - 1), At(psar, k - 1), At(closes, k), At(psar, k))

OneDirection(dir, closes, psar, k) ==
    /\ ~ReadsBoth(closes, psar, k)
    /\ dir = "UP" => ~ReadsDown(closes, psar, k)
    /\ dir = "DOWN" => ~ReadsUp(closes, psar, k)

\* C3: the flip detector never reports both directions for one bar: at every
\* bar the batch loop and the live functions evaluate, the UP test and the
\* DOWN test do not both hold (ties close[i-1] = psar[i-1] included) and a
\* reported direction excludes the other test; trendStrategy5m pushes at most
\* one signal per bar index.
C3_SingleDirection ==
    /\ (pc \in {"loop", "done"} /\ iter.outcome \notin {"none", "nopsar"}) =>
            OneDirection(iter.direction, Closes(candles), Run.psarArr, iter.bar)
    /\ (pc \in {"psarAdx", "psar"} /\ signal.outcome \notin {"none", "short"}) =>
            OneDirection(signal.direction, Closes(candles), LiveRun(window).psarArr,
                         signal.crossIdx)
    /\ \A a \in 1..Len(signals) : \A b \in 1..Len(signals) :
            signals[a].index = signals[b].index => a = b

\* C3 witness: trendStrategy5m returned an UP and a DOWN signal, and so for
\* two different bars.
C3_Witness ==
    /\ pc = "trendDone" /\ Len(signals) = 2
    /\ signals[1].direction = "UP" /\ signals[2].direction = "DOWN"

\* the UP test of the Keltner loop on the values it reads for bar idx
KeltnerReadsUp(idx) ==
    KeltnerUp(At(Closes(candles), idx - 1), At(Closes(candles), idx),
              KeltnerRun.kcArr[idx - KcWarmup + 1].lower,
              At(KeltnerRun.ema50Arr, idx), At(KeltnerRun.ema200Arr, idx))

\* C4: whenever the UP condition holds at an evaluated bar, the detected
\* direction of that bar is UP: in backtestStrategy, in the live signal
\* functions and in the Keltner loop the DOWN test neither replaces nor
\* cancels it.
C4_UpPrecedence ==
    /\ (pc \in {"loop", "done"} /\ iter.outcome \notin {"none", "nopsar"}) =>
            (ReadsUp(Closes(candles), Run.psarArr, iter.bar) => iter.direction = "UP")
    /\ (pc \in {"psarAdx", "psar"} /\ signal.outcome \notin {"none", "short"}) =>
            (ReadsUp(Closes(candles), LiveRun(window).psarArr, signal.crossIdx)
                => signal.direction = "UP")
    /\ (pc \in {"keltner", "keltnerDone"} /\ iter.outcome \in {"noflip", "trade"}) =>
            (KeltnerReadsUp(iter.bar) => iter.direction = "UP")

\* C4 witness: the Keltner loop opened an UP trade from a close on the lower
\* band.
C4_Witness ==
    /\ pc = "keltner" /\ iter.outcome = "trade" /\ iter.direction = "UP"
    /\ At(Closes(candles), iter.bar - 1) = KeltnerRun.kcArr[iter.bar - KcWarmup + 1].lower

\* the close and the indicator values of bar k (0-based), Undef when absent
CloseAt(k) == At(Closes(candles), k)
PsarAt(k) == At(psarOf, k)
EmaAt(k) == At(emaOf, k)
AdxAt(k) == At(adxOf, k)

FlipUp(k) ==
    /\ PsarAt(k - 1) # Undef /\ PsarAt(k) # Undef
    /\ CloseAt(k - 1) <= PsarAt(k - 1) /\ CloseAt(k) > PsarAt(k)

FlipDown(k) ==
    /\ PsarAt(k - 1) # Undef /\ PsarAt(k) # Undef
    /\ CloseAt(k - 1) >= PsarAt(k - 1) /\ CloseAt(k) < PsarAt(k)

LiveEvaluated == pc \in {"psarAdx", "psar"} /\ signal.outcome \notin {"none", "short"}

OnOldSide(dir, j) ==
    IF dir = "UP" THEN Le(CloseAt(j), PsarAt(j)) ELSE Ge(CloseAt(j), PsarAt(j))

StayedOnOldSide(dir, k, K) ==
    k - K >= 0 /\ \A j \in (k - K)..(k - 1) : OnOldSide(dir, j)

\* C6: with minFlips = K >= 2 the persistence filter of psarAdxSignal passes a
\* confirmed flip at bar i exactly when the close stayed on the pre-flip side
\* of the PSAR for at least K consecutive bars ending at bar i-1.
C6_PersistenceSemantics ==
    (pc = "psarAdx" /\ minFlips >= 2
        /\ signal.outcome \in {"minflips", "ema", "adx", "signal"})
    => (signal.outcome # "minflips"
            <=> StayedOnOldSide(signal.direction, signal.crossIdx, minFlips))

\* C7: with minFlips = 1 no confirmed flip is dropped by the persistence
\* check, in backtestStrategy and in psarAdxSignal.
C7_NoConstraintAtOne ==
    minFlips = 1 => (iter.outcome # "minflips" /\ signal.outcome # "minflips")

\* the values of minFlips and lookback the runs are compared over
PersistenceRange == 1..(LiveMaxMinFlips + 1)

WithMinFlips(K) ==
    RunOf(candles, psarOf, emaOf, adxOf, expiryBars, adxThreshold, K, rangeMultiplier)

LiveWithMinFlips(K) ==
    PsarAdxSignal(LiveRunOf(SubSeq(candles, 1, window), psarOf, emaOf, adxOf,
                            adxThreshold, K, rangeMultiplier))

WithLookback(L) == LookbackRunOf(candles, psarOf, emaOf, L)

\* the run r opens a trade of direction dir at index k
BatchFires(r, k, dir) ==
    /\ k >= 1 /\ InLoop(r, k)
    /\ IterationAt(r, k).outcome = "trade" /\ IterationAt(r, k).direction = dir

LookbackFires(r, k, dir) ==
    /\ k >= r.lookback /\ LookbackInLoop(r, k)
    /\ LookbackIterate(r, k).outcome = "trade" /\ LookbackIterate(r, k).direction = dir

\* C8: monotonic tightening: with the same bars and settings, every bar that
\* fires with a larger minFlips (backtestStrategy, psarAdxSignal) or a larger
\* lookback (look-back backtest) fires, in the same direction, with every
\* smaller one.
C8_MonotonicTightening ==
    /\ pc = "done" =>
        \A K \in PersistenceRange :
            /\ K < minFlips =>
                  \A t \in 1..Len(trades) :
                      BatchFires(WithMinFlips(K), trades[t].bar, trades[t].direction)
            /\ K > minFlips =>
                  \A k \in 1..Len(candles) : \A dir \in {"UP", "DOWN"} :
                      BatchFires(WithMinFlips(K), k, dir) =>
                          \E t \in 1..Len(trades) :
                              trades[t].bar = k /\ trades[t].direction = dir
    /\ (pc = "psarAdx" /\ signal.outcome # "none") =>
        \A K \in PersistenceRange :
            /\ (K < minFlips /\ ~signal.skipped) =>
                  LiveWithMinFlips(K).signal = signal.signal
            /\ (K > minFlips /\ ~LiveWithMinFlips(K).skipped) =>
                  signal.signal = LiveWithMinFlips(K).signal
    /\ pc = "lookbackDone" =>
        \A L \in PersistenceRange :
            /\ L < lookback =>
                  \A t \in 1..Len(trades) :
                      LookbackFires(WithLookback(L), trades[t].bar, trades[t].direction)
            /\ L > lookback =>
                  \A k \in 1..Len(candles) : \A dir \in {"UP", "DOWN"} :
                      LookbackFires(WithLookback(L), k, dir) =>
                          \E t \in 1..Len(trades) :
                              trades[t].bar = k /\ trades[t].direction = dir

\* C8 witness: a finished run of backtestStrategy with the largest minFlips
\* opened a trade.
C8_Witness ==
    pc = "done" /\ minFlips = MaxMinFlips /\ Len(trades) = 1

\* C9: a trade or signal at bar i has the EMA200 and the ADX of bar i
\* defined, and the ADX at or above the threshold; an undefined value fails
\* the filter.
C9_UndefinedFailsFilter ==
    /\ (pc \in {"loop", "done"} /\ iter.outcome = "trade") =>
        /\ EmaAt(iter.bar) # Undef
        /\ AdxAt(iter.bar) # Undef /\ AdxAt(iter.bar) >= adxThreshold
    /\ (pc \in {"psarAdx", "psar"} /\ ~signal.skipped) =>
        /\ EmaAt(signal.crossIdx) # Undef
        /\ pc = "psarAdx" =>
              (AdxAt(signal.crossIdx) # Undef /\ AdxAt(signal.crossIdx) >= adxThreshold)

C11_TotalCountsCreated ==
    pc \in {"done", "tripleDone"} => result.total = Len(trades)

\* C12: in the triple-oscillator backtest a trade is resolved at most once:
\* no counted trade is still on the open-trade list, no trade is counted
\* twice, and the total counts exactly the resolved trades.
C12_ResolvedOnce ==
    pc \in {"triple", "tripleDone"} =>
        /\ \A a \in 1..Len(resolved) : \A b \in 1..Len(openTrades) :
              resolved[a].entryIndex # openTrades[b].entryIndex
        /\ \A a \in 1..Len(resolved) : \A b \in 1..Len(resolved) :
              resolved[a].entryIndex = resolved[b].entryIndex => a = b
        /\ totalTrades = Len(resolved)
        /\ \A a \in 1..Len(resolved) : resolved[a].expiryIndex < i

\* C12 witness: one trade has been counted while the next one is open.
C12_Witness ==
    pc = "triple" /\ Len(resolved) = 1 /\ Len(openTrades) = 1

Confirmed(k) ==
    \/ (FlipUp(k) /\ CloseAt(k + 1) > CloseAt(k))
    \/ (FlipDown(k) /\ CloseAt(k + 1) < CloseAt(k))

\* the EMA200 and the ADX the loop reads at index k reject no flip there
FiltersPass(k) ==
    LET ema == At(Run.ema200Arr, k)
        adx == At(Run.adxArr, k)
    IN  /\ ema = Undef \/ ~((FlipUp(k) /\ CloseAt(k) < ema) \/ (FlipDown(k) /\ CloseAt(k) > ema))
        /\ adx = Undef \/ adx >= adxThreshold

\* bar k is a signal bar of a run with minFlips = 1: a confirmed flip after
\* a bar that was none, inside the loop, that no filter rejects
SignalBar(k) ==
    /\ k >= 2 /\ InLoop(Run, k)
    /\ Confirmed(k) /\ ~Confirmed(k - 1) /\ FiltersPass(k)

HasTrade(k) == \E t \in 1..Len(trades) : trades[t].bar = k

\* C14: overlapping trades are kept: when a second signal bar comes before
\* the expiry bar of the trade of an earlier one, backtestStrategy opens and
\* counts a trade for each of them.
C14_OverlappingTradesKept ==
    (pc = "done" /\ minFlips = 1) =>
        \A k1 \in 2..Len(candles) : \A k2 \in 2..Len(candles) :
            (k1 < k2 /\ k2 < k1 + 1 + expiryBars /\ SignalBar(k1) /\ SignalBar(k2))
                => /\ HasTrade(k1) /\ HasTrade(k2)
                   /\ result.total >= 2 /\ result.total = Len(trades)

\* C14 witness: with a holding period of three bars, signals two bars apart
\* gave two trades.
C14_Witness ==
    /\ pc = "done" /\ expiryBars = OverlapExpiry /\ result.total = 2
    /\ trades[2].bar = trades[1].bar + 2

\* the close is strictly below the PSAR before bar F and strictly above it
\* from bar F on
StepScenario(F) ==
    \A k \in 0..(Len(candles) - 1) :
        IF k < F THEN CloseAt(k) < PsarAt(k) ELSE CloseAt(k) > PsarAt(k)

\* C15: on a series strictly below the PSAR before bar F and strictly above
\* from F on, with continuation confirmed, minFlips = 1, expiryBars = 1 and no
\* filter rejecting, backtestStrategy opens exactly one trade: UP, for signal
\* bar F, entered at close[F+1], resolved at close[F+2], a win exactly when
\* close[F+2] > close[F+1].
C15_SingleFlipScenario ==
    (pc = "done" /\ minFlips = 1 /\ expiryBars = 1) =>
        \A F \in 2..(Len(candles) - 3) :
            (StepScenario(F) /\ CloseAt(F + 1) > CloseAt(F) /\ FiltersPass(F))
                => /\ Len(trades) = 1
                   /\ trades[1].bar = F /\ trades[1].direction = "UP"
                   /\ trades[1].entryPrice = CloseAt(F + 1)
                   /\ trades[1].exitPrice = CloseAt(F + 2)
                   /\ trades[1].isWin <=> CloseAt(F + 2) > CloseAt(F + 1)
                   /\ result.total = 1
                   /\ result.correct = (IF CloseAt(F + 2) > CloseAt(F + 1) THEN 1 ELSE 0)

\* C15 witness: such a run, finished with its one trade won.
C15_Witness ==
    /\ pc = "done" /\ minFlips = 1 /\ expiryBars = 1
    /\ \E F \in 2..(Len(candles) - 3) : StepScenario(F)
    /\ Len(trades) = 1 /\ trades[1].isWin

\* the close is strictly above the PSAR at bars F and F+1 only
BlipScenario(F) ==
    \A k \in 0..(Len(candles) - 1) :
        IF k >= F /\ k <= F + 1 THEN CloseAt(k) > PsarAt(k) ELSE CloseAt(k) < PsarAt(k)

\* C16: with minFlips = K larger than two, on a series whose close is above
\* the PSAR only at bars F and F+1, backtestStrategy opens no trade.
C16_ShortExcursionScenario ==
    (pc = "done" /\ minFlips > 2) =>
        \A F \in 2..(Len(candles) - 3) :
            (BlipScenario(F) /\ CloseAt(F + 1) > CloseAt(F)) => trades = <<>>

\* C17: at most one runLoop invocation is in progress at any time.
C17_PollsSerialized ==
    pc \in {"driverPsarAdx", "driverPsar"} => inflight <= 1

\* the live call on bars 0..k+1 with the thresholds of the batch run
LiveOn(k) ==
    PsarAdxSignal(LiveRunOf(SubSeq(candles, 1, k + 2), psarOf, emaOf, adxOf,
                            adxThreshold, minFlips, rangeMultiplier))

LiveDecision(sig) == IF sig.skipped THEN "NONE" ELSE sig.signal

\* C18: psarAdxSignal on bars 0..i+1 returns a non-skipped signal with
\* direction d exactly when backtestStrategy, run over a sequence extending
\* those bars with the same thresholds, opens a trade with direction d for
\* signal bar i.
C18_LiveBatchEquivalence ==
    pc = "done" =>
        \A k \in 1..Len(candles) :
            Evaluated(Run, k) =>
                LiveDecision(LiveOn(k)) = Decision(IterationAt(Run, k))

\* a bar sequence too short for one EMA200 value
TooShort == Len(candles) <= EmaWarmup

\* C19: a batch backtest given fewer bars than the EMA200 needs evaluates no
\* bar, counts no trade and does not return a normal result.
C19_InsufficientDataFailsFast ==
    (TooShort /\ pc \in {"start", "loop", "done", "thrown",
                         "lookbackStart", "lookback", "lookbackDone", "lookbackShort",
                         "keltner", "keltnerDone",
                         "tripleStart", "triple", "tripleDone", "tripleShort"}) =>
        /\ iter = NoIter
        /\ totalTrades = 0
        /\ pc \notin {"done", "lookbackDone", "keltnerDone", "tripleDone"}

\* C20: a run whose expiryBars or minFlips is zero or negative, or whose
\* lookback is zero, is refused before the bar loop: it never enters the
\* loop and never returns a normal result.
C20_MisconfigurationRejected ==
    /\ (pc \in {"start", "loop", "done", "thrown"} /\ (expiryBars <= 0 \/ minFlips <= 0))
           => pc \notin {"loop", "done"}
    /\ (pc \in {"lookbackStart", "lookback", "lookbackDone", "lookbackShort"}
        /\ lookback <= 0)
           => pc \notin {"lookback", "lookbackDone"}

\* high - low of bar k
RangeAt(k) == candles[k + 1].high - candles[k + 1].low

\* the range of bar k is strictly greater than mult times the mean range of
\* the RangeLookback bars ending at k
ExceedsMeanRange(k, mult) ==
    RangeAt(k) * RangeLookback
        > mult * SumRange(Highs(candles), Lows(candles), k - RangeLookback + 1, k)

\* C21: with a range multiplier > 0 a trade is opened, and a live signal is
\* returned, for bar i only if high[i] - low[i] is strictly greater than the
\* multiplier times the mean range of the look-back window ending at i (for
\* every bar that has such a window); with a multiplier <= 0 no bar is
\* rejected by the range filter.
C21_RangeFilter ==
    /\ (pc \in {"loop", "done"} /\ iter.outcome = "trade" /\ rangeMultiplier > 0
        /\ iter.bar >= RangeLookback - 1)
           => ExceedsMeanRange(iter.bar, rangeMultiplier)
    /\ (pc = "psarAdx" /\ ~signal.skipped /\ rangeMultiplier > 0
        /\ signal.crossIdx >= RangeLookback - 1)
           => ExceedsMeanRange(signal.crossIdx, rangeMultiplier)
    /\ rangeMultiplier <= 0 => iter.outcome # "range" /\ signal.outcome # "range"

\* among the first n bars, bar k+1 exists and its close continues a flip of
\* direction dir at bar k
ContinuesWithin(dir, k, n) ==
    /\ k + 1 <= n - 1
    /\ dir = "UP" => CloseAt(k + 1) > CloseAt(k)
    /\ dir = "DOWN" => CloseAt(k + 1) < CloseAt(k)

\* C22: a trade is opened, and a live signal is returned, for a flip at bar i
\* with direction UP only if close[i+1] > close[i] and with direction DOWN
\* only if close[i+1] < close[i]; none for a bar i whose next bar is not in
\* the input.
C22_Continuation ==
    /\ \A t \in 1..Len(trades) :
        pc \in {"loop", "done"}
            => ContinuesWithin(trades[t].direction, trades[t].bar, Len(candles))
    /\ (pc \in {"psarAdx", "psar"} /\ ~signal.skipped)
            => ContinuesWithin(signal.signal, signal.crossIdx, window)

\* C22 witness: psarSignal returned DOWN for a flip at the bar before the
\* latest one of its window.
C22_Witness ==
    /\ pc = "psar" /\ ~signal.skipped /\ signal.signal = "DOWN"
    /\ signal.crossIdx = window - 2
    /\ CloseAt(window - 1) < CloseAt(window - 2)

\* the call that returned `signal`, with the ADX at level a instead
WithAdx(a) ==
    PsarAdxSignal(LiveRunOf(SubSeq(candles, 1, window), psarOf, emaOf,
                            FlatAdx(Len(candles), a), adxThreshold, minFlips,
                            rangeMultiplier))

TradeBars(r) ==
    {k \in 1..Len(r.candles) : InLoop(r, k) /\ IterationAt(r, k).outcome = "trade"}

ResultOf(r) ==
    LET total == Cardinality(TradeBars(r))
        correct == Cardinality({k \in TradeBars(r) : IterationAt(r, k).isWin})
    IN  [total |-> total, correct |-> correct, accuracy |-> Accuracy(correct, total)]

\* the candles of the run with the volume column v in place of their own
Revolumed(v) ==
    [k \in 1..Len(candles) |-> [candles[k] EXCEPT !.volume = v[k]]]

\* C24: the result of a run is a function of the open/high/low/close
\* columns: the same candles with any other volume column, and the same
\* candles again, give the same total, correct and accuracy.
C24_VolumeIndependence ==
    pc = "done" =>
        \A v \in VolumeColumns(Len(candles)) :
            ResultOf(RunOf(Revolumed(v), psarOf, emaOf, adxOf, expiryBars,
                           adxThreshold, minFlips, rangeMultiplier)) = result

\* C24 witness: a finished run that opened a trade on candles whose volumes
\* are not all the same.
C24_Witness ==
    /\ pc = "done" /\ result.total > 0
    /\ \E j, k \in 1..Len(candles) : candles[j].volume # candles[k].volume

\* record k of the log is waiting / has been resolved
PendingAt(k) == Len(log) >= k /\ log[k].result = "PENDING"

ResolvedAt(k) ==
    /\ Len(log) >= k
    /\ log[k].result \in {"WIN", "LOSS"}
    /\ log[k].endPrice # Null
    /\ log[k].confirmedAt # Null

\* C25: every record logged with result PENDING is eventually resolved (its
\* result a win or a loss, its exit price and resolution time set), and a
\* resolved record never changes again.
C25_PendingResolved ==
    /\ \A k \in 1..MaxLog : PendingAt(k) ~> ResolvedAt(k)
    /\ [][\A k \in 1..Len(log) :
            ResolvedAt(k) => (Len(log') >= k /\ log'[k] = log[k])]_vars

\* C26: every trade opened by backtestStrategy has its flip bar at least
\* minFlips bars after each earlier bar at which the close crossed the PSAR,
\* confirmed or not.
C26_BarsSinceLastFlip ==
    pc \in {"loop", "done"} =>
        \A t \in 1..Len(trades) : \A j \in 1..(trades[t].bar - 1) :
            (FlipUp(j) \/ FlipDown(j)) => trades[t].bar - j >= minFlips

\* C27: one flip bar produces at most one log record: no two records of the
\* log are about the same flip bar.
C27_OneRecordPerFlip ==
    pc \in {"driverPsarAdx", "driverPsar"} =>
        \A j, k \in 1..Len(log) : j < k => log[j].flipBar # log[k].flipBar

\* C28: in the triple-oscillator backtest, after bar i-1 has been processed
\* the open-trade list holds at most one trade, and only a trade that expires
\* at the next bar i; none with an earlier expiry index remains.
C28_OpenTradesExpireNext ==
    pc \in {"triple", "tripleDone"} =>
        /\ Len(openTrades) <= 1
        /\ \A t \in 1..Len(openTrades) :
            /\ i >= 1
            /\ openTrades[t].expiryIndex = i
            /\ openTrades[t].entryIndex = i - 1

\* C28 witness: two trades have expired and been dropped, and the trade
\* opened at the bar just processed is the only one on the list.
C28_Witness ==
    /\ pc = "triple" /\ Len(resolved) = 2 /\ Len(openTrades) = 1
    /\ openTrades[1].expiryIndex = i

\* C29: every trade a batch backtest counts takes its entry price and its
\* exit price from bars inside 0..N-1 (PSAR+ADX: entry i+1, exit
\* i+1+expiryBars; Keltner: entry idx+1, exit idx+1+expiryBars).
C29_TradeBarsInRange ==
    pc \in {"loop", "done", "keltner", "keltnerDone"} =>
        \A t \in 1..Len(trades) :
            /\ trades[t].bar + 1 <= Len(candles) - 1
            /\ trades[t].bar + 1 + expiryBars <= Len(candles) - 1
            /\ trades[t].entryPrice # Undef
            /\ trades[t].exitPrice # Undef

\* the branch of the detector that cancels an UP because the DOWN test holds
\* as well is taken on the values read at index k
ConflictBranchTaken(closes, psar, k) ==
    ReadsUp(closes, psar, k) /\ ReadsDown(closes, psar, k)

\* C30: for defined close and PSAR values the UP test and the DOWN test never
\* both hold, so no run takes the conflicting-directions branch: at every bar
\* the batch loop and psarAdxSignal evaluate the branch is not taken, and a
\* null direction there means that neither test held.
C30_NoConflictingDirections ==
    /\ \A cp, cc \in CloseVals : \A pp, pq \in PsarVals :
            ~(UpCond(cp, pp, cc, pq) /\ DownCond(cp, pp, cc, pq))
    /\ (pc \in {"loop", "done"} /\ iter.outcome \notin {"none", "nopsar"}) =>
            /\ ~ConflictBranchTaken(Closes(candles), Run.psarArr, iter.bar)
            /\ iter.direction = "null" =>
                    /\ ~ReadsUp(Closes(candles), Run.psarArr, iter.bar)
                    /\ ~ReadsDown(Closes(candles), Run.psarArr, iter.bar)
    /\ (pc = "psarAdx" /\ signal.outcome \notin {"none", "short"}) =>
            /\ ~ConflictBranchTaken(Closes(candles), LiveRun(window).psarArr,
                                    signal.crossIdx)
            /\ signal.direction = "null" =>
                    /\ ~ReadsUp(Closes(candles), LiveRun(window).psarArr, signal.crossIdx)
                    /\ ~ReadsDown(Closes(candles), LiveRun(window).psarArr, signal.crossIdx)

\* C30 witness: a finished run opened an UP trade at a bar whose previous
\* close was exactly on the PSAR, where the first half of both tests holds.
C30_Witness ==
    /\ pc = "done" /\ Len(trades) = 1 /\ trades[1].direction = "UP"
    /\ CloseAt(trades[1].bar - 1) = PsarAt(trades[1].bar - 1)

====
